---- MODULE Spec2Model ----
(***************************************************************************)
(* libaether: the package registry (PkgList) over a filesystem made of a   *)
(* package-store directory, a binary directory and the directories the     *)
(* packages come from.                                                      *)
(*                                                                          *)
(* A string is a sequence of tokens, so that string formatting is          *)
(* concatenation; a path is a sequence of components, each a string.       *)
(***************************************************************************)
EXTENDS Naturals, Integers, Sequences, FiniteSets, TLC

VARIABLES pkgs, fs, last, pre, installed

\* arg is what a function checked on its own is applied to and ret what it
\* gave; proc holds the processes that run install side by side
VARIABLES arg, ret, proc

vars == <<pkgs, fs, last, pre, installed, arg, ret, proc>>

NoArg == <<>>

NoRet == [fn |-> "none"]

NoProc == <<>>

----------------------------------------------------------------------------
(* Paths *)

Last(p) == p[Len(p)]

Root == <<"/">>

IsAbsolute(p) == Len(p) > 0 /\ p[1] = Root

\* PathBuf::join: joining an absolute path replaces the base
Join(base, p) == IF IsAbsolute(p) THEN p ELSE base \o p

IsUnder(d, p) == Len(p) > Len(d) /\ SubSeq(p, 1, Len(d)) = d

IsChild(d, p) == Len(p) = Len(d) + 1 /\ SubSeq(p, 1, Len(d)) = d

StripPrefix(d, p) == SubSeq(p, Len(d) + 1, Len(p))

bin_dir == <<Root, <<"home">>, <<"bin">> >>

pkg_dir == <<Root, <<"home">>, <<"pkg">> >>

----------------------------------------------------------------------------
(* The filesystem: directories, regular files, symbolic links (link, target) *)

Entries(f) == f.dirs \cup f.files \cup {l[1] : l \in f.links}

\* Path::exists follows a symbolic link: a dangling link does not exist
PathExists(f, p) ==
    \/ p \in f.dirs
    \/ p \in f.files
    \/ \E l \in f.links : l[1] = p /\ (l[2] \in f.dirs \/ l[2] \in f.files)

\* a fixed enumeration of a set, standing for the order a directory is listed in
RECURSIVE SetToSeq(_)
SetToSeq(S) ==
    IF S = {} THEN <<>>
    ELSE LET x == CHOOSE y \in S : TRUE IN <<x>> \o SetToSeq(S \ {x})

\* std::fs::read_dir: "NotFound", "Err" (not a directory) or the entries
read_dir(f, d) ==
    IF d \in f.dirs
    THEN [res |-> "Ok", entries |-> SetToSeq({p \in Entries(f) : IsChild(d, p)})]
    ELSE IF d \in Entries(f)
    THEN [res |-> "Err", entries |-> <<>>]
    ELSE [res |-> "NotFound", entries |-> <<>>]

\* std::fs::remove_file: unlinks a regular file or a symbolic link (never its
\* target); fails on a directory and on a missing path
remove_file(f, p) ==
    IF \E l \in f.links : l[1] = p
    THEN [ok |-> TRUE, fs |-> [f EXCEPT !.links = {l \in f.links : l[1] # p}]]
    ELSE IF p \in f.files
    THEN [ok |-> TRUE, fs |-> [f EXCEPT !.files = f.files \ {p}]]
    ELSE [ok |-> FALSE, fs |-> f]

\* std::os::unix::fs::symlink(target, path): fails when path is taken
symlink(f, target, path) ==
    IF path \in Entries(f) \/ SubSeq(path, 1, Len(path) - 1) \notin f.dirs
    THEN [ok |-> FALSE, fs |-> f]
    ELSE [ok |-> TRUE, fs |-> [f EXCEPT !.links = f.links \cup {<<path, target>>}]]

\* fs_extra::dir::copy(from, to, content_only): the directories under `from` are
\* created under `to`, then the files are copied one by one; a file whose
\* destination is taken fails the copy and what was copied before it stays
RECURSIVE CopyFiles(_, _, _, _, _)
CopyFiles(f, from, to, srcs, i) ==
    IF i > Len(srcs) THEN [ok |-> TRUE, fs |-> f]
    ELSE LET dst == to \o StripPrefix(from, srcs[i]) IN
         IF dst \in Entries(f) THEN [ok |-> FALSE, fs |-> f]
         ELSE CopyFiles([f EXCEPT !.files = f.files \cup {dst}], from, to, srcs, i + 1)

dir_copy(f, from, to) ==
    IF from \notin f.dirs THEN [ok |-> FALSE, fs |-> f]
    ELSE LET newdirs == {to} \cup {to \o StripPrefix(from, d) : d \in {x \in f.dirs : IsUnder(from, x)}}
             made    == {d \in newdirs : d \notin Entries(f)}
             f1      == [f EXCEPT !.dirs = f.dirs \cup made]
         IN  CopyFiles(f1, from, to, SetToSeq({x \in f.files : IsUnder(from, x)}), 1)

----------------------------------------------------------------------------
(* The metadata parsers.  A line is a sequence of tokens; the token "="     *)
(* is the delimiter " = ", the token "#" the character a comment starts     *)
(* with.                                                                     *)

\* str::split(" = "): the parts between the delimiters, at least one
RECURSIVE SplitLoop(_, _, _, _)
SplitLoop(line, i, part, parts) ==
    IF i > Len(line) THEN Append(parts, part)
    ELSE IF line[i] = "=" THEN SplitLoop(line, i + 1, <<>>, Append(parts, part))
    ELSE SplitLoop(line, i + 1, Append(part, line[i]), parts)

Split(line) == SplitLoop(line, 1, <<>>, <<>>)

starts_with(line, c) == Len(line) > 0 /\ line[1] = c

\* the numerals of this model that str::parse::<i32> accepts, with their values
I32 == ("0" :> 0) @@ ("1" :> 1) @@ ("42" :> 42) @@ ("-7" :> -7)

\* str::parse::<i32>: 2147483648 is out of range, the empty string has no digit
parse_i32(value) ==
    IF Len(value) = 1 /\ value[1] \in DOMAIN I32
    THEN [ok |-> TRUE, val |-> I32[value[1]]]
    ELSE [ok |-> FALSE, val |-> 0]

\* an unwrap of None or of Err: the thread panics and parse does not return
Panic == [res |-> "panic"]

PkgInfoNew ==
    [pkgname |-> <<>>, pkgbase |-> <<>>, pkgver |-> <<>>, pkgdesc |-> <<>>, url |-> <<>>,
     builddate |-> 0, packager |-> <<>>, size |-> 0, arch |-> <<>>, license |-> <<>>,
     conflict |-> <<>>, provides |-> <<>>, depend |-> <<>>, optdepend |-> <<>>,
     makedepend |-> <<>>, checkdepend |-> <<>>, backup |-> <<>>, group |-> <<>>]

\* the arch arm assigning instead of pushing
PkgInfoAssignedWithArch ==
    {"pkgname", "pkgbase", "pkgver", "pkgdesc", "url", "packager", "license", "arch"}

\* the arms of the match in PkgInfo::parse that assign, parse and push
PkgInfoAssigned == {"pkgname", "pkgbase", "pkgver", "pkgdesc", "url", "packager", "license"}

PkgInfoParsed == {"builddate", "size"}

PkgInfoPushed ==
    {"arch", "conflict", "provides", "depend", "optdepend", "makedepend", "checkdepend",
     "backup", "group"}

RECURSIVE PkgInfoLoop(_, _, _)
PkgInfoLoop(lines, i, pkginfo) ==
    IF i > Len(lines) THEN [res |-> "Ok", info |-> pkginfo]
    ELSE IF starts_with(lines[i], "#") THEN PkgInfoLoop(lines, i + 1, pkginfo)
    ELSE LET parts == Split(lines[i])
             key   == parts[1]
         IN  IF Len(parts) < 2 THEN Panic
             ELSE LET value == parts[2]
                      k     == IF Len(key) = 1 THEN key[1] ELSE ""
                  IN  IF k \in PkgInfoAssigned
                      THEN PkgInfoLoop(lines, i + 1, [pkginfo EXCEPT ![k] = value])
                      ELSE IF k \in PkgInfoParsed
                      THEN IF parse_i32(value).ok
                           THEN PkgInfoLoop(lines, i + 1,
                                            [pkginfo EXCEPT ![k] = parse_i32(value).val])
                           ELSE Panic
                      ELSE IF k \in PkgInfoPushed
                      THEN PkgInfoLoop(lines, i + 1, [pkginfo EXCEPT ![k] = Append(@, value)])
                      ELSE [res |-> "InfoKeyError", kind |-> "PkgInfo", key |-> key]

\* PkgInfo::parse on a file that is read and is UTF-8, given by its lines
PkgInfoParse(lines) == PkgInfoLoop(lines, 1, PkgInfoNew)

BuildInfoNew ==
    [format |-> 0, pkgname |-> <<>>, pkgbase |-> <<>>, pkgver |-> <<>>, pkgarch |-> <<>>,
     pkgbuild_sha256sum |-> <<>>, pkgbuild_md5sum |-> <<>>, pkgbuild_sha1sum |-> <<>>,
     packager |-> <<>>, builddate |-> 0, builddir |-> <<>>, startdir |-> <<>>,
     buildtool |-> <<>>, buildtoolver |-> <<>>, buildenv |-> <<>>, options |-> <<>>,
     installed |-> <<>>]

BuildInfoAssigned ==
    {"pkgname", "pkgbase", "pkgver", "pkgbuild_sha256sum", "pkgbuild_md5sum",
     "pkgbuild_sha1sum", "packager", "builddir", "startdir", "buildtool", "buildtoolver"}

BuildInfoParsed == {"format", "builddate"}

BuildInfoPushed == {"pkgarch", "buildenv", "options", "installed"}

RECURSIVE BuildInfoLoop(_, _, _)
BuildInfoLoop(lines, i, buildinfo) ==
    IF i > Len(lines) THEN [res |-> "Ok", info |-> buildinfo]
    ELSE LET parts == Split(lines[i])
             key   == parts[1]
         IN  IF Len(parts) < 2
             THEN [res |-> "InfoParseError", field |-> "value", line |-> lines[i]]
             ELSE LET value == parts[2]
                      k     == IF Len(key) = 1 THEN key[1] ELSE ""
                  IN  IF k \in BuildInfoAssigned
                      THEN BuildInfoLoop(lines, i + 1, [buildinfo EXCEPT ![k] = value])
                      ELSE IF k \in BuildInfoParsed
                      THEN IF parse_i32(value).ok
                           THEN BuildInfoLoop(lines, i + 1,
                                              [buildinfo EXCEPT ![k] = parse_i32(value).val])
                           ELSE [res |-> "InvalidValue", key |-> key, value |-> value]
                      ELSE IF k \in BuildInfoPushed
                      THEN BuildInfoLoop(lines, i + 1,
                                         [buildinfo EXCEPT ![k] = Append(@, value)])
                      ELSE [res |-> "InfoKeyError", kind |-> "BuildInfo", key |-> key]

\* BuildInfo::parse on a file that is read and is UTF-8, given by its lines
BuildInfoParse(lines) == BuildInfoLoop(lines, 1, BuildInfoNew)

----------------------------------------------------------------------------
(* Pkg *)

\* format!("{}-{}", pkgname, pkgver)
get_refstr(pkg) == pkg.pkginfo.pkgname \o <<"-">> \o pkg.pkginfo.pkgver

\* list_execs leaving out the entries of path/bin whose name path/usr/bin has
ListExecsDeduplicated(f, pkg) ==
    LET usr_bin == pkg.path \o << <<"usr">>, <<"bin">> >>
        bin     == pkg.path \o << <<"bin">> >>
        r1      == read_dir(f, usr_bin)
        r2      == read_dir(f, bin)
    IN  IF r1.res = "Err" \/ r2.res = "Err"
        THEN [res |-> "ReadError", execs |-> <<>>]
        ELSE [res |-> "Ok",
              execs |-> r1.entries \o
                        SelectSeq(r2.entries,
                                  LAMBDA e : \A k \in 1..Len(r1.entries) :
                                                 Last(r1.entries[k]) # Last(e))]

\* the entries of path/usr/bin, then those of path/bin; a missing directory
\* contributes nothing, any other read failure is an error
list_execs(f, pkg) ==
    LET usr_bin == pkg.path \o << <<"usr">>, <<"bin">> >>
        bin     == pkg.path \o << <<"bin">> >>
        r1      == read_dir(f, usr_bin)
        r2      == read_dir(f, bin)
    IN  IF r1.res = "Err" \/ r2.res = "Err"
        THEN [res |-> "ReadError", execs |-> <<>>]
        ELSE [res |-> "Ok", execs |-> r1.entries \o r2.entries]

check_execs(f, pkg) ==
    LET l == list_execs(f, pkg) IN
    IF l.res # "Ok" THEN [res |-> l.res, missing |-> <<>>]
    ELSE LET path(i) == Join(bin_dir, <<Last(l.execs[i])>>)
             missing == SelectSeq([i \in 1..Len(l.execs) |-> path(i)],
                                  LAMBDA p : ~PathExists(f, p))
         IN  IF missing = <<>> THEN [res |-> "Ok", missing |-> <<>>]
             ELSE [res |-> "MissingExec", missing |-> missing]

check_files(f, pkg) ==
    IF \E i \in 1..Len(pkg.files) : Len(pkg.files[i]) = 0
    THEN [res |-> "Unknown", missing |-> <<>>]
    ELSE LET path(i) == Join(pkg_dir, <<Last(pkg.files[i])>>)
             missing == SelectSeq([i \in 1..Len(pkg.files) |-> path(i)],
                                  LAMBDA p : ~PathExists(f, p))
         IN  IF missing = <<>> THEN [res |-> "Ok", missing |-> <<>>]
             ELSE [res |-> "MissingFile", missing |-> missing]

RECURSIVE SymlinkLoop(_, _, _)
SymlinkLoop(f, execs, i) ==
    IF i > Len(execs) THEN [res |-> "Ok", fs |-> f]
    ELSE LET r == symlink(f, execs[i], Join(bin_dir, <<Last(execs[i])>>)) IN
         IF r.ok THEN SymlinkLoop(r.fs, execs, i + 1)
         ELSE [res |-> "LinkError", fs |-> f]

symlink_execs(f, pkg) ==
    LET l == list_execs(f, pkg) IN
    IF l.res # "Ok" THEN [res |-> l.res, fs |-> f]
    ELSE SymlinkLoop(f, l.execs, 1)

RECURSIVE RemoveLoop(_, _, _)
RemoveLoop(f, paths, i) ==
    IF i > Len(paths) THEN [res |-> "Ok", fs |-> f]
    ELSE LET r == remove_file(f, paths[i]) IN
         IF r.ok THEN RemoveLoop(r.fs, paths, i + 1)
         ELSE [res |-> "WriteError", fs |-> f]

\* the path removed is pkg_dir().join(file), file being the recorded path
remove_files(f, pkg) ==
    IF \E i \in 1..Len(pkg.files) : Len(pkg.files[i]) = 0
    THEN [res |-> "Unknown", fs |-> f]
    ELSE RemoveLoop(f, [i \in 1..Len(pkg.files) |-> Join(pkg_dir, pkg.files[i])], 1)

unlink_execs(f, pkg) ==
    LET l == list_execs(f, pkg) IN
    IF l.res # "Ok" THEN [res |-> l.res, fs |-> f]
    ELSE RemoveLoop(f, [i \in 1..Len(l.execs) |-> Join(bin_dir, <<Last(l.execs[i])>>)], 1)

\* MTree::parse on a manifest file that is a gzip stream ("gzip"), is not one
\* ("garbage") or cannot be read ("unreadable"): the exit status of gunzip is
\* not looked at
MTreeParse(mtree) == IF mtree = "unreadable" THEN "ReadError" ELSE "Ok"

\* PkgInfo::parse on a metadata file that can or cannot be read
PkgInfoRead(pkginfo) ==
    IF ~pkginfo.readable THEN [res |-> "ReadError"] ELSE PkgInfoParse(pkginfo.lines)

\* Pkg::is_valid_dir on a directory d: whether read_dir succeeds, the names of
\* its entries, its manifest, its metadata file, whether a walk of it succeeds
Validate(d) ==
    IF ~d.readable THEN "ReadError"
    ELSE IF d.entries = {} THEN "no data"
    ELSE IF <<".MTREE">> \notin d.entries THEN "missing .MTREE file"
    ELSE IF <<".PKGINFO">> \notin d.entries THEN "missing .PKGINFO file"
    ELSE IF MTreeParse(d.mtree) # "Ok" THEN "invalid .MTREE file"
    ELSE LET r == PkgInfoRead(d.pkginfo) IN
         IF r.res = "panic" THEN "panic"
         ELSE IF r.res # "Ok" THEN "invalid .PKGINFO file"
         ELSE "Ok"

\* Pkg::from_dir on a directory d: "Pkg" when it returns a package
Construct(d) ==
    IF Validate(d) # "Ok" THEN Validate(d)
    ELSE IF ~d.walkable THEN "panic"
    ELSE IF MTreeParse(d.mtree) # "Ok" THEN MTreeParse(d.mtree)
    ELSE IF PkgInfoRead(d.pkginfo).res # "Ok" THEN PkgInfoRead(d.pkginfo).res
    ELSE "Pkg"

\* the directory dir of f; the metadata files of the directories of f decode and parse
DirOf(f, dir) ==
    LET r     == read_dir(f, dir)
        names == IF r.res = "Ok" THEN {Last(r.entries[i]) : i \in 1..Len(r.entries)} ELSE {}
    IN  [readable |-> r.res = "Ok",
         entries  |-> names,
         mtree    |-> IF <<".MTREE">> \in names THEN "gzip" ELSE "absent",
         pkginfo  |-> [readable |-> <<".PKGINFO">> \in names, lines |-> <<>>],
         walkable |-> TRUE]

\* Pkg::is_valid_dir on the directory dir of f
is_valid_dir(f, dir) == Validate(DirOf(f, dir))

\* Pkg::from_dir: the walk records every entry under the directory, and info is
\* what PkgInfo::parse reads from its .PKGINFO
from_dir(f, dir, info) ==
    [pkginfo |-> info,
     path    |-> dir,
     files   |-> SetToSeq({p \in Entries(f) : IsUnder(dir, p)})]

----------------------------------------------------------------------------
(* PkgList *)

\* the comparison made on the (pkgname, pkgver) pair instead of the formatted string
RefstrExistsByFields(ps, pkg) ==
    \E i \in 1..Len(ps) :
        /\ ps[i].pkginfo.pkgname = pkg.pkginfo.pkgname
        /\ ps[i].pkginfo.pkgver = pkg.pkginfo.pkgver

RefstrExists(ps, pkg) ==
    \E i \in 1..Len(ps) : get_refstr(ps[i]) = get_refstr(pkg)

\* the names of all members' executables, in member order
RECURSIVE AllExecNames(_, _, _)
AllExecNames(f, ps, i) ==
    IF i > Len(ps) THEN <<>>
    ELSE LET l == list_execs(f, ps[i]) IN
         [k \in 1..Len(l.execs) |-> Last(l.execs[k])] \o AllExecNames(f, ps, i + 1)

\* a name compared with the name checked just before it only
ConflictsAdjacent(names) ==
    LET idx == SelectSeq([k \in 1..Len(names) |-> k],
                         LAMBDA k : k > 1 /\ names[k - 1] = names[k])
    IN  [k \in 1..Len(idx) |-> names[idx[k]]]

\* the loop of exec_conflicts: a name found in checked is pushed onto
\* conflicts, any other name onto checked
RECURSIVE ConflictLoop(_, _, _, _)
ConflictLoop(names, i, checked, conflicts) ==
    IF i > Len(names) THEN conflicts
    ELSE IF \E k \in 1..Len(checked) : checked[k] = names[i]
    THEN ConflictLoop(names, i + 1, checked, Append(conflicts, names[i]))
    ELSE ConflictLoop(names, i + 1, Append(checked, names[i]), conflicts)

\* a name is a conflict at every occurrence after its first
Conflicts(names) == ConflictLoop(names, 1, <<>>, <<>>)

\* the conflicts kept only where the last member, the incoming package, provides the name
ExecConflictsIncomingOnly(f, ps) ==
    LET own == IF Len(ps) = 0 THEN <<>> ELSE AllExecNames(f, <<ps[Len(ps)]>>, 1)
    IN  [res |-> "Ok",
         conflicts |-> SelectSeq(Conflicts(AllExecNames(f, ps, 1)),
                                 LAMBDA n : \E k \in 1..Len(own) : own[k] = n)]

exec_conflicts(f, ps) ==
    IF \E i \in 1..Len(ps) : list_execs(f, ps[i]).res # "Ok"
    THEN [res |-> "ReadError", conflicts |-> <<>>]
    ELSE [res |-> "Ok", conflicts |-> Conflicts(AllExecNames(f, ps, 1))]

\* the outcome of install_to: the result, the registry and the filesystem after it
Outcome(res, msg, names, ps, f) ==
    [res |-> res, msg |-> msg, names |-> names, pkgs |-> ps, fs |-> f]

\* the package set the executable-conflict check leaves in the registry
Registered(ps, pkg) == Append(ps, pkg)

\* install_to undoing the copy when the linking fails
InstallToRollingBack(ps, f, pkg, path) ==
    IF RefstrExists(ps, pkg)
    THEN Outcome("AlreadyExists", "exists", <<>>, ps, f)
    ELSE LET ps1 == Registered(ps, pkg)
             c   == exec_conflicts(f, ps1)
         IN  IF c.res # "Ok" THEN Outcome(c.res, "", <<>>, ps1, f)
             ELSE IF c.conflicts # <<>>
             THEN Outcome("AlreadyExists", "conflicts", c.conflicts, ps1, f)
             ELSE LET cp == dir_copy(f, pkg.path, path) IN
                  IF ~cp.ok THEN Outcome("CopyError", "", <<>>, ps1, cp.fs)
                  ELSE LET sl == symlink_execs(cp.fs, pkg) IN
                       Outcome(sl.res, "", <<>>, ps1, IF sl.res = "Ok" THEN sl.fs ELSE f)

install_to(ps, f, pkg, path) ==
    IF RefstrExists(ps, pkg)
    THEN Outcome("AlreadyExists", "exists", <<>>, ps, f)
    ELSE LET ps1 == Registered(ps, pkg)
             c   == exec_conflicts(f, ps1)
         IN  IF c.res # "Ok" THEN Outcome(c.res, "", <<>>, ps1, f)
             ELSE IF c.conflicts # <<>>
             THEN Outcome("AlreadyExists", "conflicts", c.conflicts, ps1, f)
             ELSE LET cp == dir_copy(f, pkg.path, path) IN
                  IF ~cp.ok THEN Outcome("CopyError", "", <<>>, ps1, cp.fs)
                  ELSE LET sl == symlink_execs(cp.fs, pkg) IN
                       Outcome(sl.res, "", <<>>, ps1, sl.fs)

install(ps, f, pkg) == install_to(ps, f, pkg, Join(pkg_dir, <<get_refstr(pkg)>>))

\* the guard with its negation lost
NotAMemberInverted(ps, pkg) == RefstrExists(ps, pkg)

\* the guard of remove_from: no member has the package's reference string
NotAMember(ps, pkg) == ~RefstrExists(ps, pkg)

remove_from(ps, f, pkg) ==
    IF NotAMember(ps, pkg)
    THEN Outcome("MissingPkg", "", <<>>, ps, f)
    ELSE LET ce == check_execs(f, pkg)
             u  == IF ce.res = "Ok" THEN unlink_execs(f, pkg) ELSE [res |-> "Ok", fs |-> f]
         IN  IF ce.res \notin {"Ok", "MissingExec"} THEN Outcome(ce.res, "", <<>>, ps, f)
             ELSE IF u.res # "Ok" THEN Outcome(u.res, "", <<>>, ps, u.fs)
             ELSE LET cf == check_files(u.fs, pkg)
                      r  == IF cf.res = "Ok" THEN remove_files(u.fs, pkg)
                            ELSE [res |-> "Ok", fs |-> u.fs]
                  IN  IF cf.res \notin {"Ok", "MissingFile"} THEN Outcome(cf.res, "", <<>>, ps, u.fs)
                      ELSE Outcome(r.res, "", <<>>, ps, r.fs)

remove(ps, f, pkg) == remove_from(ps, f, pkg)

\* PkgList::new_from: every subdirectory of the store is loaded as a package
new_from(f, path, infos) ==
    LET r    == read_dir(f, path)
        subs == SelectSeq(r.entries, LAMBDA p : p \in f.dirs)
    IN  [k \in 1..Len(subs) |-> from_dir(f, subs[k], infos[subs[k]])]

----------------------------------------------------------------------------
(* The directories of the model *)

SrcDir(n) == <<Root, <<"src">>, <<n>> >>

MetaFiles == { << <<".MTREE">> >>, << <<".PKGINFO">> >> }

Tree(root, dirs, files) ==
    [dirs  |-> {root} \cup {root \o d : d \in dirs},
     files |-> {root \o x : x \in files \cup MetaFiles},
     links |-> {}]

UsrBin == { << <<"usr">> >>, << <<"usr">>, <<"bin">> >> }

Bin == { << <<"bin">> >> }

UsrBinFile(n) == << <<"usr">>, <<"bin">>, <<n>> >>

BinFile(n) == << <<"bin">>, <<n>> >>

\* package directories outside the store: A and B both provide foo, A and A2
\* format to the same reference string, A2 has no executable
TreeA == Tree(SrcDir("A"), UsrBin, {UsrBinFile("foo")})

TreeA2 == Tree(SrcDir("A2"), {}, {})

TreeB == Tree(SrcDir("B"), UsrBin \cup Bin, {UsrBinFile("foo"), BinFile("bar")})

TreeC == Tree(SrcDir("C"), Bin, {BinFile("baz")})

\* a package already in the store, with its link in the binary directory
StoreS == pkg_dir \o << <<"s", "-", "1">> >>

TreeS ==
    [Tree(StoreS, UsrBin, {UsrBinFile("sx")})
        EXCEPT !.links = {<<bin_dir \o << <<"sx">> >>, StoreS \o UsrBinFile("sx")>>}]

\* a file of the user's own in the binary directory
Foreign == [dirs |-> {}, files |-> {bin_dir \o << <<"baz">> >>}, links |-> {}]

Union(a, b) ==
    [dirs |-> a.dirs \cup b.dirs, files |-> a.files \cup b.files, links |-> a.links \cup b.links]

BaseFs ==
    Union([dirs |-> {bin_dir, pkg_dir}, files |-> {}, links |-> {}],
          Union(Union(TreeA, TreeA2), Union(TreeB, TreeC)))

InitFs(withStore, withForeign) ==
    Union(Union(BaseFs, IF withStore THEN TreeS ELSE [dirs |-> {}, files |-> {}, links |-> {}]),
          IF withForeign THEN Foreign ELSE [dirs |-> {}, files |-> {}, links |-> {}])

\* what .PKGINFO of each directory parses to (pkgname, pkgver)
Infos ==
    (SrcDir("A")  :> [pkgname |-> <<"a">>, pkgver |-> <<"1", "-", "2">>]) @@
    (SrcDir("A2") :> [pkgname |-> <<"a", "-", "1">>, pkgver |-> <<"2">>]) @@
    (SrcDir("B")  :> [pkgname |-> <<"b">>, pkgver |-> <<"1">>]) @@
    (SrcDir("C")  :> [pkgname |-> <<"c">>, pkgver |-> <<"1">>]) @@
    (StoreS       :> [pkgname |-> <<"s">>, pkgver |-> <<"1">>])

SrcDirs == {SrcDir("A"), SrcDir("A2"), SrcDir("B"), SrcDir("C")}

\* the Pkg values a caller holds: Pkg::from_dir of each package directory
Cands == {from_dir(BaseFs, d, Infos[d]) : d \in {x \in SrcDirs : is_valid_dir(BaseFs, x) = "Ok"}}

PkgA == from_dir(BaseFs, SrcDir("A"), Infos[SrcDir("A")])

PkgA2 == from_dir(BaseFs, SrcDir("A2"), Infos[SrcDir("A2")])

PkgB == from_dir(BaseFs, SrcDir("B"), Infos[SrcDir("B")])

PkgC == from_dir(BaseFs, SrcDir("C"), Infos[SrcDir("C")])

\* the targets install_to is called with besides the one install computes
ToPaths == {pkg_dir}

Members == {pkgs[i] : i \in 1..Len(pkgs)}

----------------------------------------------------------------------------
(* The registry as a state machine.  last is the call just made and its     *)
(* result (again: the call before it was a remove of the same package that  *)
(* returned Ok), pre the registry and the filesystem that call started     *)
(* from, installed the packages for which install has returned Ok.          *)

NoPkg == [pkginfo |-> [pkgname |-> <<>>, pkgver |-> <<>>], path |-> <<>>, files |-> <<>>]

NoCall ==
    [op |-> "none", pkg |-> NoPkg, res |-> "Ok", msg |-> "", names |-> <<>>, again |-> FALSE]

Init ==
    \E withStore \in BOOLEAN, withForeign \in BOOLEAN :
        /\ fs = InitFs(withStore, withForeign)
        /\ \A d \in {q \in fs.dirs : IsChild(pkg_dir, q)} : is_valid_dir(fs, d) = "Ok"
        /\ pkgs = new_from(fs, pkg_dir, Infos)
        /\ last = NoCall
        /\ pre = [pkgs |-> pkgs, fs |-> fs]
        /\ installed = {}
        /\ arg = NoArg /\ ret = NoRet /\ proc = NoProc

Record(op, pkg, o) ==
    /\ pkgs' = o.pkgs
    /\ fs' = o.fs
    /\ last' = [op |-> op, pkg |-> pkg, res |-> o.res, msg |-> o.msg, names |-> o.names,
                again |-> op = "remove" /\ last.op = "remove" /\ last.pkg = pkg /\ last.res = "Ok"]
    /\ pre' = [pkgs |-> pkgs, fs |-> fs]
    /\ installed' = IF op = "install" /\ o.res = "Ok" THEN installed \cup {pkg} ELSE installed
    /\ UNCHANGED <<arg, ret, proc>>

Install == \E pkg \in Cands : Record("install", pkg, install(pkgs, fs, pkg))

InstallTo ==
    \E pkg \in Cands, path \in ToPaths :
        Record("install_to", pkg, install_to(pkgs, fs, pkg, path))

Remove == \E pkg \in Cands \cup Members : Record("remove", pkg, remove(pkgs, fs, pkg))

Next == Install \/ InstallTo \/ Remove

Spec == Init /\ [][Next]_vars

\* PkgList::exec_conflicts called on the registry
ExecConflicts ==
    LET c == exec_conflicts(fs, pkgs) IN
    Record("exec_conflicts", NoPkg, Outcome(c.res, "", c.conflicts, pkgs, fs))

\* the registry changed through install and remove alone
NextInstallRemove == Install \/ Remove

SpecInstallRemove == Init /\ [][NextInstallRemove]_vars

----------------------------------------------------------------------------
(* Registries loaded from a store of up to three packages, each with any of *)
(* the executables usr/bin/x, usr/bin/y and bin/x                            *)

ScanDir(n) == pkg_dir \o << <<n, "-", "1">> >>

ScanNames == {"p1", "p2", "p3"}

ScanExecs == {UsrBinFile("x"), UsrBinFile("y"), BinFile("x")}

ScanTree(n, execs) ==
    Tree(ScanDir(n),
         (IF \E e \in execs : Len(e) = 3 THEN UsrBin ELSE {}) \cup
         (IF \E e \in execs : Len(e) = 2 THEN Bin ELSE {}),
         execs)

\* the store holds the packages named in there, execs[n] being the executables of n
ScanFs(there, execs) ==
    [dirs  |-> {bin_dir, pkg_dir} \cup UNION {ScanTree(n, execs[n]).dirs : n \in there},
     files |-> UNION {ScanTree(n, execs[n]).files : n \in there},
     links |-> {}]

ScanInfos == [d \in {ScanDir(n) : n \in ScanNames} |-> [pkgname |-> <<d[Len(d)][1]>>, pkgver |-> <<"1">>]]

InitScan ==
    \E there \in SUBSET ScanNames :
        \E execs \in [there -> SUBSET ScanExecs] :
            /\ fs = ScanFs(there, execs)
            /\ \A d \in {q \in fs.dirs : IsChild(pkg_dir, q)} : is_valid_dir(fs, d) = "Ok"
            /\ pkgs = new_from(fs, pkg_dir, ScanInfos)
            /\ last = NoCall
            /\ pre = [pkgs |-> pkgs, fs |-> fs]
            /\ installed = {}
        /\ arg = NoArg /\ ret = NoRet /\ proc = NoProc

\* Pkg::list_execs called on a member of the registry
ListExecs ==
    \E i \in 1..Len(pkgs) :
        LET l == list_execs(fs, pkgs[i]) IN
        Record("list_execs", pkgs[i], Outcome(l.res, "", l.execs, pkgs, fs))

NextScan == ExecConflicts \/ ListExecs

SpecScan == InitScan /\ [][NextScan]_vars

----------------------------------------------------------------------------
(* The parsers applied to metadata files of up to MaxLines lines *)

MaxLines == 3

Line(k, v) == <<k, "=">> \o v

Lines ==
    {Line("pkgname", <<"foo">>), Line("pkgname", <<"bar">>), Line("pkgver", <<"1.0-1">>),
     Line("arch", <<"x86_64">>), Line("arch", <<"any">>),
     Line("license", <<"MIT">>), Line("license", <<"GPL">>),
     Line("builddate", <<"42">>), Line("builddate", <<"abc">>),
     Line("size", <<"2147483648">>), Line("size", <<>>), Line("format", <<"1">>),
     Line("format", <<"x">>), Line("colour", <<"red">>), Line("pkgname", <<"a", "=", "b">>),
     <<"#", "comment">>, <<"pkgname=foo">>, <<>>}

\* the file of the example: name foo, version 1.0-1, two architectures
ExampleFile ==
    <<Line("pkgname", <<"foo">>), Line("pkgver", <<"1.0-1">>),
      Line("arch", <<"x86_64">>), Line("arch", <<"any">>)>>

InitParse ==
    /\ arg \in UNION {[1..n -> Lines] : n \in 0..MaxLines} \cup {ExampleFile}
    /\ ret = NoRet
    /\ pkgs = <<>> /\ fs = BaseFs /\ last = NoCall /\ pre = [pkgs |-> pkgs, fs |-> fs]
    /\ installed = {} /\ proc = NoProc

Apply(fn, out) ==
    /\ ret' = [fn |-> fn, out |-> out]
    /\ UNCHANGED <<arg, pkgs, fs, last, pre, installed, proc>>

ParsePkgInfo == Apply("PkgInfo::parse", PkgInfoParse(arg))

ParseBuildInfo == Apply("BuildInfo::parse", BuildInfoParse(arg))

NextParse == ParsePkgInfo \/ ParseBuildInfo

SpecParse == InitParse /\ [][NextParse]_vars

----------------------------------------------------------------------------
(* is_valid_dir and from_dir applied to one directory that does not change *)

DirPkgInfos ==
    {<<Line("pkgname", <<"foo">>), Line("pkgver", <<"1.0-1">>)>>,
     <<Line("pkgname", <<"foo">>), <<"pkgname=foo">> >>,
     <<Line("pkgname", <<"foo">>), Line("size", <<"abc">>)>>,
     <<Line("pkgname", <<"foo">>), Line("colour", <<"red">>)>>}

\* a subdirectory that cannot be read is what makes the walk fail
Dirs ==
    {d \in [readable : BOOLEAN,
            entries  : SUBSET {<<".MTREE">>, <<".PKGINFO">>, <<"usr">>},
            mtree    : {"gzip", "garbage", "unreadable", "absent"},
            pkginfo  : [readable : BOOLEAN, lines : DirPkgInfos \cup {<<>>}],
            walkable : BOOLEAN] :
        /\ (d.mtree = "absent") <=> (<<".MTREE">> \notin d.entries)
        /\ d.pkginfo.readable => <<".PKGINFO">> \in d.entries
        /\ ~d.pkginfo.readable => d.pkginfo.lines = <<>>
        /\ ~d.walkable => <<"usr">> \in d.entries}

InitDir ==
    /\ arg \in Dirs
    /\ ret = [fn |-> "none", out |-> "none", prev |-> NoRet]
    /\ pkgs = <<>> /\ fs = BaseFs /\ last = NoCall /\ pre = [pkgs |-> pkgs, fs |-> fs]
    /\ installed = {} /\ proc = NoProc

\* a call on the directory; prev is the call before it
Call(fn, out) ==
    /\ ret' = [fn |-> fn, out |-> out, prev |-> [fn |-> ret.fn, out |-> ret.out]]
    /\ UNCHANGED <<arg, pkgs, fs, last, pre, installed, proc>>

IsValidDir == Call("is_valid_dir", Validate(arg))

FromDir == Call("from_dir", Construct(arg))

NextDir == IsValidDir \/ FromDir

SpecDir == InitDir /\ [][NextDir]_vars

----------------------------------------------------------------------------
(* Two processes, each with a registry of its own loaded from the store,    *)
(* each installing one package; the filesystem is what they share.  The      *)
(* steps of install_to are the checks, the copy and the linking.             *)

Procs == {"p1", "p2"}

\* what .PKGINFO parses to, in the package directories and in their copies in the store
StoreInfos ==
    [d \in {pkg_dir \o <<get_refstr(c)>> : c \in Cands} |->
        (CHOOSE c \in Cands : pkg_dir \o <<get_refstr(c)>> = d /\ c.path # SrcDir("A2")).pkginfo]
    @@ Infos

\* a lock held by a process between its checks and the end of its writes
MayStepLocked(pr, p) == \A q \in Procs \ {p} : pr[q].pc \notin {"checked", "copied"}

\* install_to takes no lock: a process steps whatever the others are doing
MayStep(pr, p) == TRUE

InitProcs ==
    /\ proc \in [Procs -> [pc : {"idle"}, pkg : {PkgA, PkgB, PkgC}, pkgs : {<<>>},
                           res : {"none"}, clean : {FALSE}]]
    /\ fs = InitFs(FALSE, FALSE)
    /\ pkgs = <<>> /\ last = NoCall /\ pre = [pkgs |-> pkgs, fs |-> fs]
    /\ installed = {} /\ arg = NoArg /\ ret = NoRet

\* PkgList::new in process p
Load(p) ==
    /\ proc[p].pc = "idle"
    /\ proc' = [proc EXCEPT ![p].pc = "loaded", ![p].pkgs = new_from(fs, pkg_dir, StoreInfos)]
    /\ UNCHANGED <<fs, pkgs, last, pre, installed, arg, ret>>

\* no process has written to the filesystem yet
NothingWritten == \A q \in Procs : proc[q].pc \in {"idle", "loaded", "checked"} \/ proc[q].res = "AlreadyExists"

\* install_to in process p up to the conflict check
Check(p) ==
    /\ proc[p].pc = "loaded"
    /\ MayStep(proc, p)
    /\ LET me  == proc[p]
           ps1 == Registered(me.pkgs, me.pkg)
           c   == exec_conflicts(fs, ps1)
       IN  proc' = [proc EXCEPT ![p] =
                IF RefstrExists(me.pkgs, me.pkg)
                THEN [me EXCEPT !.pc = "failed", !.res = "AlreadyExists"]
                ELSE IF c.res # "Ok"
                THEN [me EXCEPT !.pc = "failed", !.res = c.res, !.pkgs = ps1]
                ELSE IF c.conflicts # <<>>
                THEN [me EXCEPT !.pc = "failed", !.res = "AlreadyExists", !.pkgs = ps1]
                ELSE [me EXCEPT !.pc = "checked", !.pkgs = ps1, !.clean = NothingWritten]]
    /\ UNCHANGED <<fs, pkgs, last, pre, installed, arg, ret>>

\* the directory copy of install_to in process p
Copy(p) ==
    /\ proc[p].pc = "checked"
    /\ MayStep(proc, p)
    /\ LET cp == dir_copy(fs, proc[p].pkg.path, Join(pkg_dir, <<get_refstr(proc[p].pkg)>>)) IN
       /\ fs' = cp.fs
       /\ proc' = [proc EXCEPT ![p].pc = IF cp.ok THEN "copied" ELSE "failed",
                               ![p].res = IF cp.ok THEN "none" ELSE "CopyError"]
    /\ UNCHANGED <<pkgs, last, pre, installed, arg, ret>>

\* symlink_execs at the end of install_to in process p
Link(p) ==
    /\ proc[p].pc = "copied"
    /\ MayStep(proc, p)
    /\ LET sl == symlink_execs(fs, proc[p].pkg) IN
       /\ fs' = sl.fs
       /\ proc' = [proc EXCEPT ![p].pc = IF sl.res = "Ok" THEN "done" ELSE "failed",
                               ![p].res = sl.res]
    /\ UNCHANGED <<pkgs, last, pre, installed, arg, ret>>

NextProcs == \E p \in Procs : Load(p) \/ Check(p) \/ Copy(p) \/ Link(p)

SpecProcs == InitProcs /\ [][NextProcs]_vars

----------------------------------------------------------------------------
(* Properties *)

RefsOf(ps) == {ps[i].pkginfo.pkgname \o <<"-">> \o ps[i].pkginfo.pkgver : i \in 1..Len(ps)}

RefOf(pkg) == pkg.pkginfo.pkgname \o <<"-">> \o pkg.pkginfo.pkgver

\* the part of the filesystem under a directory
TreeUnder(f, d) ==
    [dirs  |-> {p \in f.dirs : IsUnder(d, p)},
     files |-> {p \in f.files : IsUnder(d, p)},
     links |-> {l \in f.links : IsUnder(d, l[1])}]

\* the executable names found in the package's two directories
ExecNames(f, pkg) ==
    {Last(p) : p \in {q \in Entries(f) :
        \/ IsChild(pkg.path \o << <<"usr">>, <<"bin">> >>, q)
        \/ IsChild(pkg.path \o << <<"bin">> >>, q)}}

\* the regular files among the paths the package records
RegularFiles(pkg) == {pkg.files[i] : i \in 1..Len(pkg.files)} \cap InitFs(TRUE, TRUE).files

\* the package's files in the store: where install copies them to, or, for a
\* package loaded from the store, where they are
StoreFiles(pkg) ==
    IF IsUnder(pkg_dir, pkg.path) THEN RegularFiles(pkg)
    ELSE {pkg_dir \o <<RefOf(pkg)>> \o StripPrefix(pkg.path, p) : p \in RegularFiles(pkg)}

BinNames(f) == {Last(p) : p \in {q \in Entries(f) : IsChild(bin_dir, q)}}

IsInstall == last.op \in {"install", "install_to"}

\* C1: install or install_to of a package whose reference string is that of a
\* member returns AlreadyExists and leaves the package set, the package store
\* and the binary directory as they were.
C1_DuplicateRefstrRejected ==
    (IsInstall /\ RefOf(last.pkg) \in RefsOf(pre.pkgs)) =>
        /\ last.res = "AlreadyExists"
        /\ pkgs = pre.pkgs
        /\ TreeUnder(fs, pkg_dir) = TreeUnder(pre.fs, pkg_dir)
        /\ TreeUnder(fs, bin_dir) = TreeUnder(pre.fs, bin_dir)

\* a package was installed whose reference string a different member has
C1_Witness ==
    /\ IsInstall
    /\ RefOf(last.pkg) \in RefsOf(pre.pkgs)
    /\ last.pkg \notin {pre.pkgs[i] : i \in 1..Len(pre.pkgs)}
    /\ last.res = "AlreadyExists"

\* the first package of C2's pair: installed, a member, another package than the
\* one now installed, and providing the executable name n
FirstProvides(n) ==
    \E m \in installed :
        /\ m \in {pre.pkgs[i] : i \in 1..Len(pre.pkgs)}
        /\ RefOf(m) # RefOf(last.pkg)
        /\ n \in ExecNames(pre.fs, m)

\* C2: when an installed package provides an executable the package now
\* installed (not yet a member) provides too, install fails with AlreadyExists
\* listing that name, copies nothing into the store and links nothing.
C2_ExecConflictRejected ==
    \A n \in ExecNames(pre.fs, last.pkg) :
        (last.op = "install" /\ RefOf(last.pkg) \notin RefsOf(pre.pkgs) /\ FirstProvides(n)) =>
            /\ last.res = "AlreadyExists"
            /\ last.msg = "conflicts"
            /\ \E k \in 1..Len(last.names) : last.names[k] = n
            /\ TreeUnder(fs, pkg_dir) = TreeUnder(pre.fs, pkg_dir)
            /\ TreeUnder(fs, bin_dir) = TreeUnder(pre.fs, bin_dir)

C2_Witness ==
    /\ last.op = "install"
    /\ RefOf(last.pkg) \notin RefsOf(pre.pkgs)
    /\ \E n \in ExecNames(pre.fs, last.pkg) : FirstProvides(n)
    /\ last.res = "AlreadyExists"
    /\ last.names # <<>>

\* C3: an install rejected for an executable conflict leaves the registry's
\* package set as it was.
C3_ConflictLeavesRegistry ==
    (IsInstall /\ last.res = "AlreadyExists" /\ last.msg = "conflicts") => pkgs = pre.pkgs

\* C4: remove of a package whose reference string no member has returns
\* MissingPkg and changes nothing in the filesystem.
C4_RemoveUnknown ==
    (last.op = "remove" /\ RefOf(last.pkg) \notin RefsOf(pre.pkgs)) =>
        /\ last.res = "MissingPkg"
        /\ fs = pre.fs
        /\ pkgs = pre.pkgs

\* the registry has members, the binary directory has entries, and the package
\* removed is none of the members
C4_Witness ==
    /\ last.op = "remove"
    /\ RefOf(last.pkg) \notin RefsOf(pre.pkgs)
    /\ Len(pre.pkgs) > 0
    /\ BinNames(pre.fs) # {}
    /\ last.res = "MissingPkg"

\* C5: after remove returns Ok, no member has the package's reference string.
C5_RemovedFromRegistry ==
    (last.op = "remove" /\ last.res = "Ok") => RefOf(last.pkg) \notin RefsOf(pkgs)

\* the files install copied for the package are all in the store and every
\* executable of the package has its link in the binary directory
Intact(f, pkg) ==
    /\ StoreFiles(pkg) \subseteq f.files
    /\ \A n \in ExecNames(f, pkg) :
           \E l \in f.links : l[1] = bin_dir \o <<n>> /\ Last(l[2]) = n /\ l[2] \in f.files

\* C6: after remove returns Ok for a package installed by install whose files
\* and links were intact, the store holds none of the files copied for it and
\* the binary directory no entry for any of its executables.
C6_RemovedFromFilesystem ==
    (last.op = "remove" /\ last.res = "Ok" /\ last.pkg \in installed /\ Intact(pre.fs, last.pkg)) =>
        /\ StoreFiles(last.pkg) \cap fs.files = {}
        /\ ExecNames(pre.fs, last.pkg) \cap BinNames(fs) = {}

\* nothing of the package is left: no file copied for it, no link to its executables
FullyRemoved(f, pkg) ==
    /\ StoreFiles(pkg) \cap f.files = {}
    /\ ~\E l \in f.links : IsUnder(pkg.path, l[2])

\* C7: a second remove of a package, the first having returned Ok and left
\* nothing of it, fails with MissingPkg (and not with MissingExec or MissingFile).
C7_SecondRemoveMissingPkg ==
    (last.op = "remove" /\ last.again /\ FullyRemoved(pre.fs, last.pkg)) =>
        last.res = "MissingPkg"

\* C8: no two members of the registry have the same reference string.
C8_UniqueRefstr ==
    \A i, j \in 1..Len(pkgs) : RefOf(pkgs[i]) = RefOf(pkgs[j]) => i = j

\* several members, and an install of a second package of a member's reference
\* string has just been answered
C8_Witness ==
    /\ Len(pkgs) >= 2
    /\ IsInstall
    /\ RefOf(last.pkg) \in RefsOf(pre.pkgs)
    /\ last.pkg \notin {pkgs[i] : i \in 1..Len(pkgs)}

\* C9: right after an install that returns Ok, no executable name is discovered
\* twice across the members of the registry.
C9_NoSharedExecAfterInstall ==
    (last.op = "install" /\ last.res = "Ok") =>
        LET names == AllExecNames(fs, pkgs, 1) IN
        \A i, j \in 1..Len(names) : names[i] = names[j] => i = j

\* an install returned Ok with several members that have executables
C9_Witness ==
    /\ last.op = "install"
    /\ last.res = "Ok"
    /\ Cardinality({m \in {pkgs[i] : i \in 1..Len(pkgs)} : ExecNames(fs, m) # {}}) >= 2

\* C10: the reference strings of the members are the names of the
\* subdirectories of the package store.
C10_RegistryMirrorsStore ==
    RefsOf(pkgs) = {Last(d) : d \in {q \in fs.dirs : IsChild(pkg_dir, q)}}

\* the package's executables: the entries of its usr/bin and bin directories
ExecPaths(f, pkg) ==
    {q \in Entries(f) :
        \/ IsChild(pkg.path \o << <<"usr">>, <<"bin">> >>, q)
        \/ IsChild(pkg.path \o << <<"bin">> >>, q)}

\* C11: after install returns Ok every executable of the package has a link of
\* its name in the binary directory, whose target is the copy of the
\* executable under the package's directory in the store.
C11_LinksPointIntoStore ==
    (last.op = "install" /\ last.res = "Ok") =>
        \A e \in ExecPaths(pre.fs, last.pkg) :
            <<bin_dir \o <<Last(e)>>,
              pkg_dir \o <<RefOf(last.pkg)>> \o StripPrefix(last.pkg.path, e)>> \in fs.links

\* some executable of the package has no entry in the binary directory
PartialMiss(f, pkg) ==
    \E n \in ExecNames(f, pkg) : ~PathExists(f, bin_dir \o <<n>>)

\* C12: after remove returns Ok for a member some of whose executables were
\* already missing from the binary directory, no link to any of its
\* executables is left there.
C12_PartialMissStillUnlinks ==
    (/\ last.op = "remove"
     /\ last.res = "Ok"
     /\ RefOf(last.pkg) \in RefsOf(pre.pkgs)
     /\ PartialMiss(pre.fs, last.pkg)) =>
        \A e \in ExecPaths(pre.fs, last.pkg) : <<bin_dir \o <<Last(e)>>, e>> \notin fs.links

\* the names that occur more than once in a sequence
Duplicated(names) ==
    {names[i] : i \in {k \in 1..Len(names) : \E j \in 1..Len(names) : j # k /\ names[j] = names[k]}}

\* the executable names of the members and of the incoming package
NamesWith(f, ps, pkg) == AllExecNames(f, Append(ps, pkg), 1)

\* C14: an install of a package that is not yet a member is rejected with a
\* conflict error naming every duplicated name whenever some executable name
\* occurs more than once across the members and the incoming package, also
\* when the incoming package provides none of the duplicated names.
C14_GlobalConflictDetection ==
    (/\ IsInstall
     /\ RefOf(last.pkg) \notin RefsOf(pre.pkgs)
     /\ Duplicated(NamesWith(pre.fs, pre.pkgs, last.pkg)) # {}) =>
        /\ last.res = "AlreadyExists"
        /\ last.msg = "conflicts"
        /\ {last.names[k] : k \in 1..Len(last.names)} = Duplicated(NamesWith(pre.fs, pre.pkgs, last.pkg))

\* the duplicate is between two members, the incoming package provides none of it
C14_Witness ==
    /\ IsInstall
    /\ RefOf(last.pkg) \notin RefsOf(pre.pkgs)
    /\ Duplicated(NamesWith(pre.fs, pre.pkgs, last.pkg)) # {}
    /\ ExecNames(pre.fs, last.pkg) # {}
    /\ ExecNames(pre.fs, last.pkg) \cap Duplicated(NamesWith(pre.fs, pre.pkgs, last.pkg)) = {}
    /\ last.res = "AlreadyExists"

\* how often the members discover the executable name n
Occurrences(f, ps, n) ==
    Cardinality({ie \in UNION {{<<i, e>> : e \in ExecPaths(f, ps[i])} : i \in 1..Len(ps)} :
                    Last(ie[2]) = n})

CountIn(seq, n) == Cardinality({k \in 1..Len(seq) : seq[k] = n})

AllNamesOf(f, ps) == UNION {ExecNames(f, ps[i]) : i \in 1..Len(ps)}

\* C13: exec_conflicts leaves the registry as it was and reports a name that
\* the members discover k times k-1 times; it reports nothing exactly when no
\* name is discovered more than once.
C13_ExecConflictsCounts ==
    last.op = "exec_conflicts" =>
        /\ pkgs = pre.pkgs
        /\ fs = pre.fs
        /\ last.res = "Ok"
        /\ \A n \in AllNamesOf(fs, pkgs) : CountIn(last.names, n) = Occurrences(fs, pkgs, n) - 1
        /\ \A k \in 1..Len(last.names) : last.names[k] \in AllNamesOf(fs, pkgs)
        /\ (last.names = <<>>) <=> (\A n \in AllNamesOf(fs, pkgs) : Occurrences(fs, pkgs, n) = 1)

\* one name is discovered at least three times, not all by neighbours, and another once
C13_Witness ==
    /\ last.op = "exec_conflicts"
    /\ \E n \in AllNamesOf(fs, pkgs) : Occurrences(fs, pkgs, n) >= 3
    /\ \E n \in AllNamesOf(fs, pkgs) : Occurrences(fs, pkgs, n) = 1
    /\ Len(last.names) >= 2

Parsers == {"PkgInfo::parse", "BuildInfo::parse"}

HasDelimiter(line) == \E k \in 1..Len(line) : line[k] = "="

IsComment(line) == Len(line) > 0 /\ line[1] = "#"

\* the parser that was called returns Ok on the first n lines of the file
PrefixOk(n) ==
    IF ret.fn = "PkgInfo::parse" THEN PkgInfoParse(SubSeq(arg, 1, n)).res = "Ok"
    ELSE BuildInfoParse(SubSeq(arg, 1, n)).res = "Ok"

\* C18: in either parser, when the first line that is not accepted is a
\* non-comment line without the delimiter, parse returns the parse error that
\* names this line.
C18_MissingDelimiterIsParseError ==
    ret.fn \in Parsers =>
        \A i \in 1..Len(arg) :
            (~IsComment(arg[i]) /\ ~HasDelimiter(arg[i]) /\ PrefixOk(i - 1)) =>
                /\ ret.out.res = "InfoParseError"
                /\ ret.out.line = arg[i]

NumericKeys == [f \in Parsers |-> IF f = "PkgInfo::parse" THEN {"builddate", "size"}
                                  ELSE {"format", "builddate"}]

\* line i gives a numeric field of the parser that was called a value that is
\* not a 32-bit integer
BadNumber(i) ==
    /\ Len(arg[i]) >= 2
    /\ arg[i][1] \in NumericKeys[ret.fn]
    /\ arg[i][2] = "="
    /\ ~HasDelimiter(SubSeq(arg[i], 3, Len(arg[i])))
    /\ SubSeq(arg[i], 3, Len(arg[i])) \notin {<<"0">>, <<"1">>, <<"42">>, <<"-7">>}

\* C19: in either parser, when the first line that is not accepted gives a
\* numeric field a value that is not a 32-bit integer, parse returns the value error.
C19_BadNumberIsValueError ==
    ret.fn \in Parsers =>
        \A i \in 1..Len(arg) :
            (BadNumber(i) /\ PrefixOk(i - 1)) => ret.out.res = "InvalidValue"

\* the values the lines of key k give, in file order
RECURSIVE ValuesOf(_, _, _)
ValuesOf(lines, k, i) ==
    IF i > Len(lines) THEN <<>>
    ELSE IF Len(lines[i]) >= 2 /\ lines[i][1] = k /\ lines[i][2] = "="
    THEN <<SubSeq(lines[i], 3, Len(lines[i]))>> \o ValuesOf(lines, k, i + 1)
    ELSE ValuesOf(lines, k, i + 1)

ScalarFields == {"pkgname", "pkgbase", "pkgver", "pkgdesc", "url", "packager"}

ListFields ==
    {"arch", "conflict", "provides", "depend", "optdepend", "makedepend", "checkdepend",
     "backup", "group"}

\* C20: when PkgInfo::parse returns a record from a file whose lines have one
\* delimiter each, a scalar field holds the value of the last line of its key,
\* a list field the values of all lines of its key in file order, and the
\* licence field every value a license line gives.
C20_LastWinsAndListsAccumulate ==
    (/\ ret.fn = "PkgInfo::parse"
     /\ ret.out.res = "Ok"
     /\ \A i \in 1..Len(arg) : ~HasDelimiter(SubSeq(arg[i], 3, Len(arg[i])))) =>
        /\ \A k \in ScalarFields :
               LET vs == ValuesOf(arg, k, 1) IN
               ret.out.info[k] = IF vs = <<>> THEN <<>> ELSE vs[Len(vs)]
        /\ \A k \in ListFields : ret.out.info[k] = ValuesOf(arg, k, 1)
        /\ LET vs == ValuesOf(arg, "license", 1) IN
           \A j \in 1..Len(vs) : ret.out.info.license = vs[j]

\* C20 (amended): when PkgInfo::parse returns a record from a file whose lines
\* have one delimiter each, a scalar field, the licence among them, holds the
\* value of the last line of its key, a numeric field the number of the last
\* line of its key, and a list field the values of all lines of its key in
\* file order.
C20_LicenseIsScalar ==
    (/\ ret.fn = "PkgInfo::parse"
     /\ ret.out.res = "Ok"
     /\ \A i \in 1..Len(arg) : ~HasDelimiter(SubSeq(arg[i], 3, Len(arg[i])))) =>
        /\ \A k \in ScalarFields \cup {"license"} :
               LET vs == ValuesOf(arg, k, 1) IN
               ret.out.info[k] = IF vs = <<>> THEN <<>> ELSE vs[Len(vs)]
        /\ \A k \in {"builddate", "size"} :
               LET vs == ValuesOf(arg, k, 1) IN
               ret.out.info[k] = IF vs = <<>> THEN 0 ELSE I32[vs[Len(vs)][1]]
        /\ \A k \in ListFields : ret.out.info[k] = ValuesOf(arg, k, 1)

\* a file with two licence lines of different values is parsed
C20_Witness ==
    /\ ret.fn = "PkgInfo::parse"
    /\ ret.out.res = "Ok"
    /\ \A i \in 1..Len(arg) : ~HasDelimiter(SubSeq(arg[i], 3, Len(arg[i])))
    /\ Len(ValuesOf(arg, "license", 1)) = 2
    /\ ValuesOf(arg, "license", 1)[1] # ValuesOf(arg, "license", 1)[2]

\* C16: on one unchanged directory, from_dir returns a package exactly when
\* is_valid_dir returns Ok, whichever of the two is called first.
C16_FromDirAgreesWithIsValidDir ==
    /\ (ret.fn = "from_dir" /\ ret.prev.fn = "is_valid_dir") =>
           ((ret.out = "Pkg") <=> (ret.prev.out = "Ok"))
    /\ (ret.fn = "is_valid_dir" /\ ret.prev.fn = "from_dir") =>
           ((ret.out = "Ok") <=> (ret.prev.out = "Pkg"))

PkgInfoKeys ==
    {"pkgname", "pkgbase", "pkgver", "pkgdesc", "url", "builddate", "packager", "size",
     "arch", "license", "conflict", "provides", "depend", "optdepend", "makedepend",
     "checkdepend", "backup", "group"}

\* a line of a metadata file that is a comment or gives a known key a value
AcceptedLine(line) ==
    \/ IsComment(line)
    \/ /\ Len(line) >= 2
       /\ line[1] \in PkgInfoKeys
       /\ line[2] = "="
       /\ line[1] \in {"builddate", "size"} =>
              SubSeq(line, 3, Len(line)) \in {<<"0">>, <<"1">>, <<"42">>, <<"-7">>}

\* the first check of the fixed order that the directory fails
FirstFailing(d) ==
    IF d.entries = {} THEN "no data"
    ELSE IF <<".MTREE">> \notin d.entries THEN "missing .MTREE file"
    ELSE IF <<".PKGINFO">> \notin d.entries THEN "missing .PKGINFO file"
    ELSE IF d.mtree # "gzip" THEN "invalid .MTREE file"
    ELSE IF ~(/\ d.pkginfo.readable
              /\ \A i \in 1..Len(d.pkginfo.lines) : AcceptedLine(d.pkginfo.lines[i]))
    THEN "invalid .PKGINFO file"
    ELSE "Ok"

\* C17: on a directory that can be read, is_valid_dir reports the first check
\* that fails in the order empty directory, missing manifest, missing
\* metadata, invalid manifest, invalid metadata, and Ok when none fails.
C17_FirstFailingCheckReported ==
    (ret.fn = "is_valid_dir" /\ arg.readable) => ret.out = FirstFailing(arg)

\* the process has copied its package into the store
HasCopied(p) == proc[p].pc \in {"copied", "done"} \/ proc[p].res = "LinkError"

\* C15: nothing keeps a process from running the checks of install while
\* another is between its checks and the end of its writes; and when two
\* processes have both passed the checks before either wrote, each copy that
\* was made has put the package's files into the store.
C15_NoMutualExclusion ==
    /\ \A p \in Procs, q \in Procs :
           (p # q /\ proc[p].pc \in {"checked", "copied"} /\ proc[q].pc = "loaded") =>
               ENABLED Check(q)
    /\ \A p \in Procs :
           (HasCopied(p) /\ \A q \in Procs : proc[q].clean) =>
               StoreFiles(proc[p].pkg) \subseteq fs.files

\* both processes passed the checks before either wrote, both have copied, and
\* the store holds the two packages, which provide an executable of one name
C15_Witness ==
    /\ \A p \in Procs : proc[p].clean /\ HasCopied(p)
    /\ RefOf(proc["p1"].pkg) # RefOf(proc["p2"].pkg)
    /\ ExecNames(fs, proc["p1"].pkg) \cap ExecNames(fs, proc["p2"].pkg) # {}
    /\ \A p \in Procs :
           /\ StoreFiles(proc[p].pkg) # {}
           /\ StoreFiles(proc[p].pkg) \subseteq fs.files
           /\ \E n \in ExecNames(fs, proc["p1"].pkg) \cap ExecNames(fs, proc["p2"].pkg) :
                  \E q \in fs.files : IsUnder(pkg_dir \o <<RefOf(proc[p].pkg)>>, q) /\ Last(q) = n

\* where the call just made copies the package's regular files to
CopyTargets ==
    LET to == IF last.op = "install" THEN pkg_dir \o <<RefOf(last.pkg)>> ELSE pkg_dir
    IN  {to \o StripPrefix(last.pkg.path, p) : p \in RegularFiles(last.pkg)}

\* the call just made passes both checks, finds every destination of its copy
\* free, and finds the name of one of its executables taken in the binary directory
CopyThenLinkFails ==
    /\ IsInstall
    /\ RefOf(last.pkg) \notin RefsOf(pre.pkgs)
    /\ Duplicated(NamesWith(pre.fs, pre.pkgs, last.pkg)) = {}
    /\ CopyTargets \cap Entries(pre.fs) = {}
    /\ \E n \in ExecNames(pre.fs, last.pkg) : bin_dir \o <<n>> \in Entries(pre.fs)

\* C21: when the copy of install_to succeeds and a symlink creation then
\* fails, install_to returns the link error and the files it copied into the
\* store are still there.
C21_CopyNotRolledBack ==
    CopyThenLinkFails =>
        /\ last.res = "LinkError"
        /\ CopyTargets \subseteq fs.files

C21_Witness ==
    /\ CopyThenLinkFails
    /\ last.res = "LinkError"
    /\ CopyTargets # {}
    /\ CopyTargets \subseteq fs.files

UsrBinOf(f, pkg) == {q \in Entries(f) : IsChild(pkg.path \o << <<"usr">>, <<"bin">> >>, q)}

BinOf(f, pkg) == {q \in Entries(f) : IsChild(pkg.path \o << <<"bin">> >>, q)}

\* C22: list_execs returns every entry of the package's usr/bin once, then
\* every entry of its bin once, nothing for a directory that is absent; and a
\* name that both directories hold is reported by exec_conflicts on a registry
\* whose only member is this package.
C22_ListExecsKeepsDuplicates ==
    /\ last.op = "list_execs" =>
           LET u == Cardinality(UsrBinOf(fs, last.pkg))
               b == Cardinality(BinOf(fs, last.pkg))
           IN  /\ last.res = "Ok"
               /\ Len(last.names) = u + b
               /\ {last.names[k] : k \in 1..u} = UsrBinOf(fs, last.pkg)
               /\ {last.names[k] : k \in (u + 1)..(u + b)} = BinOf(fs, last.pkg)
    /\ (last.op = "exec_conflicts" /\ Len(pkgs) = 1) =>
           \A n \in {Last(q) : q \in UsrBinOf(fs, pkgs[1])} \cap {Last(q) : q \in BinOf(fs, pkgs[1])} :
               \E k \in 1..Len(last.names) : last.names[k] = n

\* exec_conflicts has run on a registry of one package with a name in both directories
C22_Witness ==
    /\ last.op = "exec_conflicts"
    /\ Len(pkgs) = 1
    /\ {Last(q) : q \in UsrBinOf(fs, pkgs[1])} \cap {Last(q) : q \in BinOf(fs, pkgs[1])} # {}
    /\ Len(last.names) = 1
    /\ last.res = "Ok"

\* the links of the binary directory that the call just made has deleted
DeletedLinks == {l \in pre.fs.links \ fs.links : IsChild(bin_dir, l[1])}

\* C23: a link that remove deletes from the binary directory points to an
\* executable of the removed package, and this package was installed with
\* success or was loaded from the store.
C23_RemoveDeletesOwnLinksOnly ==
    last.op = "remove" =>
        \A l \in DeletedLinks :
            /\ IsUnder(last.pkg.path, l[2])
            /\ last.pkg \in installed \/ IsUnder(pkg_dir, last.pkg.path)

\* the members that an install returning Ok or the load of the store put there
Accepted(ps) == SelectSeq(ps, LAMBDA m : m \in installed \/ IsUnder(pkg_dir, m.path))

\* the members that an install rejected for an executable conflict left
\* there: not accepted, and nothing of them copied into the store
Rejected(f, ps) ==
    {m \in {ps[i] : i \in 1..Len(ps)} :
        /\ ~(m \in installed \/ IsUnder(pkg_dir, m.path))
        /\ StoreFiles(m) \cap f.files = {}}

\* C24: after an install was rejected for an executable conflict, the install
\* of a package whose reference string no member has, whose executable names
\* no member has and are free in the binary directory, and whose place in the
\* store is free, returns Ok, as it would on the registry of the accepted
\* packages.
C24_RejectedInstallLeavesNoTrace ==
    (/\ last.op = "install"
     /\ Rejected(pre.fs, pre.pkgs) # {}
     /\ \A i \in 1..Len(pre.pkgs) : pre.pkgs[i] \in Rejected(pre.fs, pre.pkgs) \/ pre.pkgs[i] \in installed
                                      \/ IsUnder(pkg_dir, pre.pkgs[i].path)
     /\ RefOf(last.pkg) \notin RefsOf(pre.pkgs)
     /\ ExecNames(pre.fs, last.pkg) \cap AllNamesOf(pre.fs, pre.pkgs) = {}
     /\ Duplicated(NamesWith(pre.fs, Accepted(pre.pkgs), last.pkg)) = {}
     /\ CopyTargets \cap Entries(pre.fs) = {}
     /\ \A n \in ExecNames(pre.fs, last.pkg) : bin_dir \o <<n>> \notin Entries(pre.fs)) =>
        last.res = "Ok"

====
